---- MODULE Spec2Model ----
(***************************************************************************)
(* A model of the didactic AES implementation (packages aes, matrix and    *)
(* blockcipher): GF(2^8) arithmetic, the key schedule, the block cipher    *)
(* and the ECB / CBC / CTR modes built over it.                            *)
(*                                                                         *)
(* Representation.  A byte is a number in 0..255.  A byte slice, a Block   *)
(* and a matrix.Vector are sequences of bytes; Go's index i is index i+1   *)
(* here.  A matrix.Matrix is a sequence of rows.  A Word is a uint32 in    *)
(* the source; 2^32 does not fit the model checker's integers, so a Word   *)
(* is held as its four bytes, most significant first: the word of value    *)
(* b0*2^24 + b1*2^16 + b2*2^8 + b3 is <<b0, b1, b2, b3>>.                  *)
(***************************************************************************)
EXTENDS Integers, Sequences, FiniteSets, TLC

(***************************************************************************)
(* Evaluation order.  Go computes a slice when it is built and a loop's    *)
(* state before the next iteration; these three definitions make the       *)
(* model do the same and change no value.                                  *)
(***************************************************************************)

\* A sequence written as a function constructor, computed at once.
Eager(s) == SubSeq(s, 1, Len(s))

\* `rest`, taken once `val` has been computed.
Strict(val, rest) == IF val = val THEN rest ELSE rest

\* What a call gives when it panics instead of returning: the panic and its
\* message (for a run-time error, the error).
Panics(message) == [panic |-> TRUE, message |-> message]

\* for i := lo; i < hi; i++ { acc = Body(i, acc) }: the value of acc after the
\* loop.  The range is walked in order, split in halves to keep evaluation shallow.
RECURSIVE For(_, _, _, _)
For(Body(_, _), lo, hi, acc) ==
  IF hi <= lo THEN acc
  ELSE IF hi = lo + 1 THEN Body(lo, acc)
  ELSE LET mid  == (lo + hi) \div 2
           left == For(Body, lo, mid, acc)
       IN  Strict(left, For(Body, mid, hi, left))

(***************************************************************************)
(* Bit operations of the Go language on non-negative integers.             *)
(***************************************************************************)

\* a ^ b one bit at a time; used to build xorTable.
RECURSIVE BitXor(_, _)
BitXor(p, q) ==
  IF p = 0 THEN q
  ELSE IF q = 0 THEN p
  ELSE (((p % 2) + (q % 2)) % 2) + 2 * BitXor(p \div 2, q \div 2)

\* a ^ b for 4-bit operands, tabulated once.
xorTable == [p \in 0..15 |-> [q \in 0..15 |-> BitXor(p, q)]]

\* Go's a ^ b for non-negative integers of any width, four bits at a time.
RECURSIVE Xor(_, _)
Xor(u, v) ==
  IF u < 16 /\ v < 16 THEN xorTable[u][v]
  ELSE xorTable[u % 16][v % 16] + 16 * Xor(u \div 16, v \div 16)

\* math/bits.Len: the number of bits needed to represent n (0 for n = 0).
RECURSIVE BitsLen(_)
BitsLen(n) == IF n = 0 THEN 0 ELSE 1 + BitsLen(n \div 2)

\* Exp2: 1 << i.
Exp2(i) == 2 ^ i

(***************************************************************************)
(* GF(2^8) arithmetic (package aes, field.go).                             *)
(***************************************************************************)

\* The reducing polynomial x^8 + x^4 + x^3 + x + 1, 1<<8 | 1<<4 | 1<<3 | 1<<1 | 1<<0.
poly == 283

\* degree: -1 for 0, else bits.Len(a) (one more than the highest set bit's index).
degree(a) == IF a = 0 THEN -1 ELSE BitsLen(a)

\* The body of Mod's loop without the shift: the divisor itself is XORed in.
ModBodyNoShift(remainder, divisor) == Xor(remainder, divisor)

\* The body of Mod's loop: distance := degree(remainder) - degree(divisor);
\* shiftedDivisor := divisor << distance; remainder ^= shiftedDivisor.
ModBody(remainder, divisor) ==
  LET distance       == degree(remainder) - degree(divisor)
      shiftedDivisor == divisor * Exp2(distance)
  IN  Xor(remainder, shiftedDivisor)

\* The loop of Mod: while the remainder's degree reaches the divisor's, XOR in
\* the divisor shifted up to the remainder's top bit.
RECURSIVE ModLoop(_, _)
ModLoop(remainder, divisor) ==
  IF remainder # 0 /\ degree(remainder) >= degree(divisor)
  THEN LET distance       == degree(remainder) - degree(divisor)
           shiftedDivisor == divisor * Exp2(distance)
       IN  ModLoop(Xor(remainder, shiftedDivisor), divisor)
  ELSE remainder

\* Mod: the remainder of dividend by divisor; the loop starts from the dividend.
Mod(dividend, divisor) == ModLoop(dividend, divisor)

\* Xtime without the reduction by poly: a plain shift cut to a byte.
XtimeNoReduce(a) == (a * 2) % 256

\* Xtime: multiply a byte by x.  a << 1 is taken in the byte type (mod 256),
\* poly is XORed in when bit 7 was set, and the result is cut to a byte.
Xtime(a) ==
  LET is7Set == (a \div 128) % 2 = 1
      temp   == (a * 2) % 256
  IN  IF is7Set THEN Xor(temp, poly) % 256 ELSE temp % 256

\* Multiply without the doubling: intermediateXtime stays a.
MultiplyNoDoubling(a, b) ==
  LET Body(i, acc) ==
        LET mask       == Exp2(i) % 256
            isPositive == (b \div mask) % 2 = 1
        IN  <<IF isPositive THEN Xor(acc[1], acc[2]) ELSE acc[1], acc[2]>>
  IN  For(Body, 0, BitsLen(b), <<0, a>>)[1]

\* Multiply: the product of two bytes in GF(2^8).  One step per bit of b below
\* bits.Len(b); the loop state is <<reduction, intermediateXtime>>.
Multiply(a, b) ==
  LET Body(i, acc) ==
        LET mask       == Exp2(i) % 256
            isPositive == (b \div mask) % 2 = 1
        IN  <<IF isPositive THEN Xor(acc[1], acc[2]) ELSE acc[1], Xtime(acc[2])>>
  IN  For(Body, 0, BitsLen(b), <<0, a>>)[1]

\* Multiply, tabulated once for the left operands 0..15 (the coefficients of
\* the MixColumns matrices lie there); the value is Multiply(a, b).
multiplyTable == [a \in 0..15 |-> [b \in 0..255 |-> Multiply(a, b)]]

MultiplyTabled(a, b) == IF a < 16 THEN multiplyTable[a][b] ELSE Multiply(a, b)

\* DotProduct: panics when len(a) != len(b); otherwise the XOR of the
\* pairwise products.
DotProduct(a, b) ==
  IF Len(a) # Len(b) THEN Panics("vector a and vector b differ in length")
  ELSE LET Body(i, out) == Xor(out, MultiplyTabled(a[i + 1], b[i + 1]))
       IN  For(Body, 0, Len(a), 0)

(***************************************************************************)
(* Package matrix.                                                         *)
(***************************************************************************)

\* NewVector: the four bytes of a 32-bit word, most significant first.
NewVector(n) == <<n[1], n[2], n[3], n[4]>>

\* NewMatrix: make(Matrix, 0, len(bytes)/columns), then rows of `columns`
\* bytes each, filled row first.  The division panics for columns = 0; for
\* columns < 0 it rounds toward zero, so the capacity is negative and make
\* panics when len(bytes) >= -columns, and the matrix is empty otherwise.
NewMatrix(bytes, columns) ==
  IF columns = 0 THEN Panics("integer divide by zero")
  ELSE IF columns < 0
  THEN IF Len(bytes) >= -columns THEN Panics("makeslice: cap out of range") ELSE <<>>
  ELSE Eager([i \in 1..(Len(bytes) \div columns) |->
                SubSeq(bytes, (i - 1) * columns + 1, (i - 1) * columns + columns)])

\* Transpose: len(m) rows of len(m) zero bytes are made, and out[i][j] =
\* m[j][i] is set for i < len(m), j < len(m[0]).  len(m[0]) panics on an empty
\* matrix, and so does an index outside out[i], m or m[j], which happens
\* whenever the matrix has columns and is not square.
Transpose(m) ==
  IF Len(m) = 0 THEN Panics("index out of range [0] with length 0")
  ELSE IF \E i \in 1..Len(m), j \in 1..Len(m[1]) : j > Len(m) \/ i > Len(m[j])
  THEN Panics("index out of range")
  ELSE Eager([i \in 1..Len(m) |->
                Eager([j \in 1..Len(m) |-> IF j <= Len(m[1]) THEN m[j][i] ELSE 0])])

\* ColumnVector: column `index` (0-based) of m, top to bottom.
ColumnVector(m, index) == Eager([i \in 1..Len(m) |-> m[i][index + 1]])

\* RowVector: row `index` (0-based) of m.
RowVector(m, index) == m[index + 1]

\* SetColumn: m with column `index` (0-based) replaced by `column`.  The
\* source panics when index > len(m[0]) (len(m[0]) itself panics on an empty
\* matrix), when len(column) != len(m), and when m[i][index] lies outside a
\* row, as it does for index = len(m[0]).
SetColumn(m, column, index) ==
  IF Len(m) = 0 THEN Panics("index out of range [0] with length 0")
  ELSE IF index > Len(m[1]) THEN Panics("column is beyond the columns of the matrix")
  ELSE IF Len(column) # Len(m) THEN Panics("vector is not of the length of a column")
  ELSE IF \E i \in 1..Len(m) : index < 0 \/ index >= Len(m[i])
  THEN Panics("index out of range")
  ELSE Eager([i \in 1..Len(m) |-> Eager([m[i] EXCEPT ![index + 1] = column[i]])])

\* EmptyMatrix: make(Matrix, rows), each row make(Vector, columns): `rows`
\* rows of `columns` zero bytes.  make panics on a negative length: for
\* rows < 0, and for columns < 0 once there is a row to make.
EmptyMatrix(columns, rows) ==
  IF rows < 0 \/ (rows > 0 /\ columns < 0) THEN Panics("makeslice: len out of range")
  ELSE Eager([i \in 1..rows |-> Eager([j \in 1..columns |-> 0])])

\* matrix.XOR: panics when len(b) != len(a); otherwise
\* out[i] = b[i] ^ a[i % len(a)].
XOR(a, b) ==
  IF Len(b) # Len(a) THEN Panics("XOR: vectors are not the same length")
  ELSE Eager([i \in 1..Len(b) |-> Xor(b[i], a[((i - 1) % Len(a)) + 1])])

(***************************************************************************)
(* Constant tables of package aes.                                         *)
(***************************************************************************)

\* The forward S-box, FIPS-197 Fig. 7; sbox[x + 1] substitutes byte x.
sbox ==
  <<
     99, 124, 119, 123, 242, 107, 111, 197,  48,   1, 103,  43, 254, 215, 171, 118,
    202, 130, 201, 125, 250,  89,  71, 240, 173, 212, 162, 175, 156, 164, 114, 192,
    183, 253, 147,  38,  54,  63, 247, 204,  52, 165, 229, 241, 113, 216,  49,  21,
      4, 199,  35, 195,  24, 150,   5, 154,   7,  18, 128, 226, 235,  39, 178, 117,
      9, 131,  44,  26,  27, 110,  90, 160,  82,  59, 214, 179,  41, 227,  47, 132,
     83, 209,   0, 237,  32, 252, 177,  91, 106, 203, 190,  57,  74,  76,  88, 207,
    208, 239, 170, 251,  67,  77,  51, 133,  69, 249,   2, 127,  80,  60, 159, 168,
     81, 163,  64, 143, 146, 157,  56, 245, 188, 182, 218,  33,  16, 255, 243, 210,
    205,  12,  19, 236,  95, 151,  68,  23, 196, 167, 126,  61, 100,  93,  25, 115,
     96, 129,  79, 220,  34,  42, 144, 136,  70, 238, 184,  20, 222,  94,  11, 219,
    224,  50,  58,  10,  73,   6,  36,  92, 194, 211, 172,  98, 145, 149, 228, 121,
    231, 200,  55, 109, 141, 213,  78, 169, 108,  86, 244, 234, 101, 122, 174,   8,
    186, 120,  37,  46,  28, 166, 180, 198, 232, 221, 116,  31,  75, 189, 139, 138,
    112,  62, 181, 102,  72,   3, 246,  14,  97,  53,  87, 185, 134, 193,  29, 158,
    225, 248, 152,  17, 105, 217, 142, 148, 155,  30, 135, 233, 206,  85,  40, 223,
    140, 161, 137,  13, 191, 230,  66, 104,  65, 153,  45,  15, 176,  84, 187,  22
  >>

\* The inverse S-box, FIPS-197 Fig. 14; sboxInverse[x + 1] substitutes byte x.
sboxInverse ==
  <<
     82,   9, 106, 213,  48,  54, 165,  56, 191,  64, 163, 158, 129, 243, 215, 251,
    124, 227,  57, 130, 155,  47, 255, 135,  52, 142,  67,  68, 196, 222, 233, 203,
     84, 123, 148,  50, 166, 194,  35,  61, 238,  76, 149,  11,  66, 250, 195,  78,
      8,  46, 161, 102,  40, 217,  36, 178, 118,  91, 162,  73, 109, 139, 209,  37,
    114, 248, 246, 100, 134, 104, 152,  22, 212, 164,  92, 204,  93, 101, 182, 146,
    108, 112,  72,  80, 253, 237, 185, 218,  94,  21,  70,  87, 167, 141, 157, 132,
    144, 216, 171,   0, 140, 188, 211,  10, 247, 228,  88,   5, 184, 179,  69,   6,
    208,  44,  30, 143, 202,  63,  15,   2, 193, 175, 189,   3,   1,  19, 138, 107,
     58, 145,  17,  65,  79, 103, 220, 234, 151, 242, 207, 206, 240, 180, 230, 115,
    150, 172, 116,  34, 231, 173,  53, 133, 226, 249,  55, 232,  28, 117, 223, 110,
     71, 241,  26, 113,  29,  41, 197, 137, 111, 183,  98,  14, 170,  24, 190,  27,
    252,  86,  62,  75, 198, 210, 121,  32, 154, 219, 192, 254, 120, 205,  90, 244,
     31, 221, 168,  51, 136,   7, 199,  49, 177,  18,  16,  89,  39, 128, 236,  95,
     96,  81, 127, 169,  25, 181,  74,  13,  45, 229, 122, 159, 147, 201, 156, 239,
    160, 224,  59,  77, 174,  42, 245, 176, 200, 235, 187,  60, 131,  83, 153,  97,
     23,  43,   4, 126, 186, 119, 214,  38, 225, 105,  20,  99,  85,  33,  12, 125
  >>

\* The MixColumns matrix and its inverse, one row per output row.
mixColumnPolynomials ==
  << <<2, 3, 1, 1>>, <<1, 2, 3, 1>>, <<1, 1, 2, 3>>, <<3, 1, 1, 2>> >>

mixColumnPolynomialsInverse ==
  << <<14, 11, 13, 9>>, <<9, 14, 11, 13>>, <<13, 9, 14, 11>>, <<11, 13, 9, 14>> >>

\* numColumns: Nb, always 4 for AES.
numColumns == 4

(***************************************************************************)
(* Words and the key schedule (package aes, aes.go and key.go).            *)
(***************************************************************************)

\* aes.NewBlock copying the first 16 bytes of a longer input instead of panicking.
NewBlockTruncates(bytes) ==
  [panic |-> FALSE,
   block |-> Eager([i \in 1..16 |-> IF i <= Len(bytes) THEN bytes[i] ELSE 0])]

\* aes.NewBlock(bytes): panics when len(bytes) > 16; otherwise var block Block
\* (sixteen zero bytes) with block[i] = bytes[i] for i < len(bytes).
NewBlock(bytes) ==
  IF Len(bytes) > 16 THEN [panic |-> TRUE, block |-> <<>>]
  ELSE LET Body(i, block) == Eager([block EXCEPT ![i + 1] = bytes[i + 1]])
       IN  [panic |-> FALSE,
            block |-> For(Body, 0, Len(bytes), Eager([i \in 1..16 |-> 0]))]

\* blockcipher.NewBlock(bytes): the same function in package blockcipher.
blockcipherNewBlock(bytes) ==
  IF Len(bytes) > 16 THEN [panic |-> TRUE, block |-> <<>>]
  ELSE LET Body(i, block) == Eager([block EXCEPT ![i + 1] = bytes[i + 1]])
       IN  [panic |-> FALSE,
            block |-> For(Body, 0, Len(bytes), Eager([i \in 1..16 |-> 0]))]

\* NewWord: panics when len(bytes) != 4; otherwise
\* bytes[0]<<24 | bytes[1]<<16 | bytes[2]<<8 | bytes[3].
NewWord(bytes) ==
  IF Len(bytes) # 4 THEN Panics("aes.NewWord: byte slice length must be of length 4")
  ELSE <<bytes[1], bytes[2], bytes[3], bytes[4]>>

\* Words: one word per four bytes, in order; len(bytes)/4 words.
Words(bytes) ==
  Eager([i \in 1..(Len(bytes) \div 4) |->
           NewWord(SubSeq(bytes, (i - 1) * 4 + 1, (i - 1) * 4 + 4))])

\* NewKey with a laxer length test: any whole number of words from 16 bytes up.
NewKeyAnyWords(bytes) ==
  LET l == Len(bytes)
  IN  IF l >= 16 /\ l % 4 = 0 THEN [panic |-> FALSE, key |-> Words(bytes)]
      ELSE [panic |-> TRUE, key |-> <<>>]

\* NewKey: the words of a 16, 24 or 32 byte key; any other length panics.
NewKey(bytes) ==
  LET l == Len(bytes)
  IN  IF l \in {16, 24, 32}
      THEN [panic |-> FALSE, key |-> Words(bytes)]
      ELSE [panic |-> TRUE, key |-> <<>>]

\* Go's ^ on two 32-bit words, byte by byte.
WordXor(v, w) ==
  <<Xor(v[1], w[1]), Xor(v[2], w[2]), Xor(v[3], w[3]), Xor(v[4], w[4])>>

\* SubstituteWord: the S-box applied to each of the four bytes of a word.
SubstituteWord(w) ==
  <<sbox[w[1] + 1], sbox[w[2] + 1], sbox[w[3] + 1], sbox[w[4] + 1]>>

\* RotateWord turning the other way: w>>8 | w<<24.
RotateWordRight(w) == <<w[4], w[1], w[2], w[3]>>

\* RotateWord: w<<8 | w>>24, the most significant byte moved to the end.
RotateWord(w) == <<w[2], w[3], w[4], w[1]>>

\* Rcon: Word(Mod(Exp2(round), poly)) << 24.  The conversion to a 32-bit word
\* and the shift keep the low byte of the remainder, as the top byte.
Rcon(round) == <<Mod(Exp2(round), poly) % 256, 0, 0, 0>>

\* expandKey: the first wordsInKey words are the key; word i of the rest is
\* out[i-wordsInKey] ^ word, with word derived from out[i-1].
expandKey(key, numRounds, wordsInKey, nCols) ==
  LET Body(i, out) ==
        LET prev == out[(i - 1) + 1]
            word == IF i % wordsInKey = 0
                    THEN WordXor(SubstituteWord(RotateWord(prev)),
                                 Rcon((i \div wordsInKey) - 1))
                    ELSE IF nCols > 6 /\ i % nCols = 4
                    THEN SubstituteWord(prev)
                    ELSE prev
        IN  Append(out, WordXor(out[(i - wordsInKey) + 1], word))
  IN  For(Body, wordsInKey, nCols * (numRounds + 1), SubSeq(key, 1, wordsInKey))

\* NewCipher: numRounds = 6 + len(key), and the expanded schedule.
NewCipher(key) ==
  LET wordsInKey == Len(key)
      numRounds  == 6 + wordsInKey
  IN  [schedule  |-> expandKey(key, numRounds, wordsInKey, numColumns),
       numRounds |-> numRounds]

(***************************************************************************)
(* The cipher core (package aes, aes.go).                                  *)
(***************************************************************************)

\* parse without the transposition: the block loaded row first.
parseRowFirst(block) == NewMatrix(block, 4)

\* parse of the first version of the package: the explicit loop
\* out[r][c] = block[r+(4*c)] over an EmptyMatrix(4, 4).
parseLoop(block) ==
  Eager([row \in 1..4 |->
           Eager([col \in 1..4 |->
                    LET r == row - 1
                        c == col - 1
                    IN  block[(r + (4 * c)) + 1]])])

\* parse: the block loaded row first, then transposed.
parse(block) == Transpose(NewMatrix(block, 4))

\* addRoundKey: column i of the state XORed with the bytes of
\* schedule[round*4 + i], set as column i of the result (i = 0..3).
addRoundKey(state, schedule, round) ==
  LET result(i) == XOR(ColumnVector(state, i),
                       NewVector(schedule[(round * 4 + i) + 1]))
  IN  Eager([r \in 1..Len(state) |-> Eager([c \in 1..4 |-> result(c - 1)[r]])])

\* subBytes / subBytesInverse: every byte through the (inverse) S-box.
subBytes(state) ==
  Eager([row \in 1..Len(state) |->
           Eager([col \in 1..Len(state[row]) |-> sbox[state[row][col] + 1]])])

subBytesInverse(state) ==
  Eager([row \in 1..Len(state) |->
           Eager([col \in 1..Len(state[row]) |-> sboxInverse[state[row][col] + 1]])])

\* shiftRows: row i becomes state[i][i:] followed by state[i][:i].
shiftRows(state) ==
  Eager([r \in 1..4 |->
           LET i == r - 1
           IN  SubSeq(state[r], i + 1, Len(state[r])) \o SubSeq(state[r], 1, i)])

\* shiftRowsInverse with the pivot of shiftRows: rows are rotated left again.
shiftRowsInverseLeft(state) ==
  Eager([r \in 1..4 |->
           LET i == r - 1
           IN  SubSeq(state[r], i + 1, Len(state[r])) \o SubSeq(state[r], 1, i)])

\* shiftRowsInverse: the same with pivot 4 - i.
shiftRowsInverse(state) ==
  Eager([r \in 1..4 |->
           LET pivot == 4 - (r - 1)
           IN  SubSeq(state[r], pivot + 1, Len(state[r])) \o SubSeq(state[r], 1, pivot)])

\* mixColumns: out[row][col] = DotProduct(polynomials row, state column).
mixColumns(state, polynomials) ==
  Eager([r \in 1..Len(state) |->
           Eager([c \in 1..Len(state[r]) |->
                    DotProduct(RowVector(polynomials, r - 1),
                               ColumnVector(state, c - 1))])])

\* matrixBlock: out[row*4 + col] = m[col][row].
matrixBlock(m) ==
  Eager([k \in 1..16 |->
           LET index == k - 1
               row   == index \div 4
               col   == index % 4
           IN  m[col + 1][row + 1]])

\* Cipher.Encrypt: round 0 adds the round key, rounds 1..numRounds-1 do all
\* four steps, the last round leaves out mixColumns.
Encrypt(c, block) ==
  LET Body(round, state) ==
        addRoundKey(mixColumns(shiftRows(subBytes(state)), mixColumnPolynomials),
                    c.schedule, round)
      s0 == addRoundKey(parse(block), c.schedule, 0)
      s1 == For(Body, 1, c.numRounds, s0)
      s2 == addRoundKey(shiftRows(subBytes(s1)), c.schedule, c.numRounds)
  IN  matrixBlock(s2)

\* Cipher.Decrypt: the rounds in reverse, from numRounds-1 down to 1; step k
\* of the loop (k = 0, 1, ...) is round numRounds-1-k.
Decrypt(c, block) ==
  LET Body(k, state) ==
        mixColumns(addRoundKey(subBytesInverse(shiftRowsInverse(state)),
                               c.schedule, c.numRounds - 1 - k),
                   mixColumnPolynomialsInverse)
      s0 == addRoundKey(parse(block), c.schedule, c.numRounds)
      s1 == For(Body, 0, c.numRounds - 1, s0)
      s2 == addRoundKey(subBytesInverse(shiftRowsInverse(s1)), c.schedule, 0)
  IN  matrixBlock(s2)

(***************************************************************************)
(* Package blockcipher: padding, blocks and the modes of operation.        *)
(***************************************************************************)

\* make([]byte, size): size zero bytes; make panics on a negative size.
ZeroBytes(size) ==
  IF size < 0 THEN Panics("makeslice: len out of range")
  ELSE Eager([i \in 1..size |-> 0])

\* blockcipher.XOR(a, b): panics when len(b) != len(a); otherwise
\* out[i] = b[i] ^ a[i % len(a)].
BlockXOR(a, b) ==
  IF Len(b) # Len(a) THEN Panics("XOR: inputs are not the same length")
  ELSE Eager([i \in 1..Len(b) |-> Xor(b[i], a[((i - 1) % Len(a)) + 1])])

\* PadBytes(bytes, length): pad := byte(length - len(bytes)) is appended
\* rounds := length - len(bytes) times, that is never when rounds <= 0.
PadBytes(bytes, length) ==
  LET pad    == (length - Len(bytes)) % 256
      rounds == length - Len(bytes)
      Body(i, acc) == Append(acc, pad)
  IN  For(Body, 0, rounds, bytes)

\* Blockify closing a block whenever i%16 == 0, the test i > 0 left out.
BlockifyNoGuard(bytes, size) ==
  LET Body(i, acc) ==
        LET closed == IF i % 16 = 0
                      THEN [out |-> Append(acc.out, acc.block), block |-> ZeroBytes(size)]
                      ELSE acc
        IN  [out   |-> closed.out,
             block |-> Eager([closed.block EXCEPT ![(i % 16) + 1] = bytes[i + 1]])]
      last == For(Body, 0, Len(bytes), [out |-> <<>>, block |-> ZeroBytes(size)])
  IN  Append(last.out, last.block)

\* Blockify without the append after the loop: the open block is returned
\* only when no block was closed.
BlockifyDropsOpenBlock(bytes, size) ==
  LET Body(i, acc) ==
        LET closed == IF i % 16 = 0 /\ i > 0
                      THEN [out |-> Append(acc.out, acc.block), block |-> ZeroBytes(size)]
                      ELSE acc
        IN  [out   |-> closed.out,
             block |-> Eager([closed.block EXCEPT ![(i % 16) + 1] = bytes[i + 1]])]
      last == For(Body, 0, Len(bytes), [out |-> <<>>, block |-> ZeroBytes(size)])
  IN  IF last.out = <<>> THEN <<last.block>> ELSE last.out

\* Block(block): the conversion of a slice to the array type Block; it
\* panics when the slice has fewer than 16 bytes and keeps the first 16.
Block(slice) ==
  IF Len(slice) < 16
  THEN Panics("cannot convert slice to array or pointer to array with length 16")
  ELSE SubSeq(slice, 1, 16)

\* Blockify(bytes, size): PadBytes is called with length len(bytes)/size + 1
\* when len(bytes) is no multiple of size; the bytes are then copied into
\* slices that make([]byte, size) created zeroed, a slice being closed when
\* i%16 == 0 && i > 0, and the open slice is appended after the loop.  Every
\* slice is appended as Block(block).  No call with size < 16 returns: size = 0
\* divides by zero, make panics on a negative size, and otherwise block[i%16]
\* or, at the latest, the conversion after the loop panics.
Blockify(bytes, size) ==
  IF size < 16 THEN Panics("cannot convert slice to array or pointer to array with length 16")
  ELSE
  LET padded == IF Len(bytes) % size > 0
                THEN PadBytes(bytes, (Len(bytes) \div size) + 1)
                ELSE bytes
      Body(i, acc) ==
        LET closed == IF i % 16 = 0 /\ i > 0
                      THEN [out |-> Append(acc.out, Block(acc.block)), block |-> ZeroBytes(size)]
                      ELSE acc
        IN  [out   |-> closed.out,
             block |-> Eager([closed.block EXCEPT ![(i % 16) + 1] = padded[i + 1]])]
      last == For(Body, 0, Len(padded), [out |-> <<>>, block |-> ZeroBytes(size)])
  IN  Append(last.out, Block(last.block))

\* binary.LittleEndian.PutUint64 on the first n bytes: the n low bytes of v,
\* least significant first.
RECURSIVE PutUint(_, _)
PutUint(v, n) == IF n = 0 THEN <<>> ELSE <<v % 256>> \o PutUint(v \div 256, n - 1)

\* LittleEndian(i, wordLen): a slice of wordLen zero bytes into whose first
\* eight bytes binary.LittleEndian.PutUint64 writes i, least significant byte
\* first; PutUint64 panics on a slice of fewer than eight bytes (and make on
\* a negative wordLen).
LittleEndian(i, wordLen) ==
  IF wordLen < 8 THEN Panics("index out of range [7]")
  ELSE PutUint(i, 8) \o ZeroBytes(wordLen - 8)

\* doECB(crypt, bytes): the blocks of bytes, each passed through crypt, concatenated.
doECB(crypt(_), bytes) ==
  LET blocks == Blockify(bytes, 16)
      Body(i, out) == out \o crypt(blocks[i + 1])
  IN  For(Body, 0, Len(blocks), <<>>)

\* (e *ecb) Encrypt and Decrypt, e.cipher being c.
ecbEncrypt(c, bytes) == LET crypt(b) == Encrypt(c, b) IN doECB(crypt, bytes)
ecbDecrypt(c, bytes) == LET crypt(b) == Decrypt(c, b) IN doECB(crypt, bytes)

\* cbc Encrypt without chaining: every block is XORed with the iv.
cbcEncryptFromIv(c, iv, bytes) ==
  LET blocks == Blockify(bytes, 16)
      Body(i, out) == out \o Encrypt(c, BlockXOR(blocks[i + 1], iv))
  IN  For(Body, 0, Len(blocks), <<>>)

\* (c *cbc) Encrypt: prevBlock starts as c.iv; each block is XORed with
\* prevBlock, encrypted, appended, and becomes prevBlock.
cbcEncrypt(c, iv, bytes) ==
  LET blocks == Blockify(bytes, 16)
      Body(i, acc) ==
        LET b == Encrypt(c, BlockXOR(blocks[i + 1], acc.prevBlock))
        IN  [out |-> acc.out \o b, prevBlock |-> b]
  IN  For(Body, 0, Len(blocks), [out |-> <<>>, prevBlock |-> iv]).out

\* cbc Decrypt chaining on its own output: prevBlock becomes the decrypted block.
cbcDecryptChainsOutput(c, iv, bytes) ==
  LET Body(i, acc) ==
        LET block == BlockXOR(Decrypt(c, SubSeq(bytes, 16 * i + 1, 16 * i + 16)), acc.prevBlock)
        IN  [out |-> acc.out \o block, prevBlock |-> block]
  IN  For(Body, 0, Len(bytes) \div 16, [out |-> <<>>, prevBlock |-> iv]).out

\* (c *cbc) Decrypt: each block is decrypted, XORed with prevBlock and
\* appended; prevBlock becomes the ciphertext block b.
cbcDecrypt(c, iv, bytes) ==
  LET blocks == Blockify(bytes, 16)
      Body(i, acc) ==
        LET b     == blocks[i + 1]
            block == BlockXOR(Decrypt(c, b), acc.prevBlock)
        IN  [out |-> acc.out \o block, prevBlock |-> b]
  IN  For(Body, 0, Len(blocks), [out |-> <<>>, prevBlock |-> iv]).out

\* ctr Encrypt counting calls: c.nonce++ once after the loop.
ctrEncryptCountsCalls(c, nonce, bytes) ==
  LET blocks == Blockify(bytes, 16)
      Body(i, acc) ==
        LET b         == blocks[i + 1]
            nonceBlk  == LittleEndian(0, 8) \o LittleEndian(0, 8)
            keystream == Encrypt(c, nonceBlk)
            encrypted == Eager([k \in 1..16 |-> Xor(keystream[k], b[k])])
        IN  [out |-> acc.out \o encrypted, nonce |-> acc.nonce,
             encryptedNonces |-> Append(acc.encryptedNonces, nonceBlk)]
      end == For(Body, 0, Len(blocks), [out |-> <<>>, nonce |-> nonce, encryptedNonces |-> <<>>])
  IN  [end EXCEPT !.nonce = @ + 1]

\* (c *ctr) Encrypt with c.nonce = nonce on entry.  For each block the 16-byte
\* nonce slice is LittleEndian(0, 8) followed by LittleEndian(uint64(0), 8),
\* its encryption is the keystream, the block is XORed with it, and c.nonce++.
\* The result is the output, c.nonce on return, and the nonce slices that
\* were encrypted, in order.
ctrEncrypt(c, nonce, bytes) ==
  LET blocks == Blockify(bytes, 16)
      Body(i, acc) ==
        LET b         == blocks[i + 1]
            nonceBlk  == LittleEndian(0, 8) \o LittleEndian(0, 8)
            keystream == Encrypt(c, nonceBlk)
            encrypted == Eager([k \in 1..16 |-> Xor(keystream[k], b[k])])
        IN  [out |-> acc.out \o encrypted, nonce |-> acc.nonce + 1,
             encryptedNonces |-> Append(acc.encryptedNonces, nonceBlk)]
  IN  For(Body, 0, Len(blocks), [out |-> <<>>, nonce |-> nonce, encryptedNonces |-> <<>>])

\* ctr Decrypt passing each block through the cipher's Decrypt instead of
\* XORing the keystream.
ctrDecryptBlockwise(c, nonce, bytes) ==
  LET Body(i, acc) == acc \o Decrypt(c, SubSeq(bytes, 16 * i + 1, 16 * i + 16))
  IN  [out |-> For(Body, 0, Len(bytes) \div 16, <<>>),
       nonce |-> nonce + (Len(bytes) \div 16), encryptedNonces |-> <<>>]

\* (c *ctr) Decrypt: return c.Encrypt(bytes).
ctrDecrypt(c, nonce, bytes) == ctrEncrypt(c, nonce, bytes)

(***************************************************************************)
(* The program as a state machine.  A client makes a key from bytes, a     *)
(* cipher from the key, and then either calls the cipher on blocks or      *)
(* wraps it in a mode and calls the mode on byte strings.  Every call is   *)
(* logged with its input and its output.                                   *)
(***************************************************************************)

VARIABLES
  pc,        \* "start", "panic" (NewKey panicked), "keyed", "ready" (cipher built), "mode" (mode built)
  keyBytes,  \* the argument NewKey was called with
  key,       \* the Key NewKey returned, <<>> before that and after a panic
  cipher,    \* the fields of the aes cipher: schedule and numRounds
  mode,      \* the fields of the mode: its kind, cbc.iv, ctr.nonce
  calls,     \* the Encrypt / Decrypt calls made so far: op, inp, out, and
             \* nonce and iv, the mode's ctr.nonce and cbc.iv when the call began
  blocks,    \* the local variable blocks of the last call of a mode
  encryptedNonces,  \* the nonce slices the ctr mode instance has encrypted so far
  run,       \* the last run of the command-line program: its environment, its
             \* argument, its stdin, what it wrote to stdout and how it exited
  exec,      \* a call of the cipher's Encrypt or Decrypt, or of Mod or Rcon,
             \* followed statement by statement: where it is, its state matrix
             \* or remainder, its loop variable round and the steps it has made
  callers    \* the goroutines that share the cipher: for each, the call of
             \* Encrypt or Decrypt it is in, with the call's local variables

vars == <<pc, keyBytes, key, cipher, mode, calls, blocks, encryptedNonces, run, exec, callers>>

\* Bounds of the exploration.
MaxKeyLen  == 33
MaxCalls   == 2
MaxPattern == 1
MaxLen     == 17
MaxBlockLen == 18
MaxStdin   == 33
MaxDividend == 63
MaxDivisor == 12
MaxRound   == 9

\* The test vectors of FIPS-197 Appendix B and Appendix C.
FipsKeyB       == <<43, 126, 21, 22, 40, 174, 210, 166, 171, 247, 21, 136, 9, 207, 79, 60>>
FipsPlainB     == <<50, 67, 246, 168, 136, 90, 48, 141, 49, 49, 152, 162, 224, 55, 7, 52>>
FipsCipherB    == <<57, 37, 132, 29, 2, 220, 9, 251, 220, 17, 133, 151, 25, 106, 11, 50>>
FipsPlainC     == <<0, 17, 34, 51, 68, 85, 102, 119, 136, 153, 170, 187, 204, 221, 238, 255>>
FipsCipherC128 == <<105, 196, 224, 216, 106, 123, 4, 48, 216, 205, 183, 128, 112, 180, 197, 90>>
FipsCipherC192 == <<221, 169, 124, 164, 134, 76, 223, 224, 110, 175, 112, 160, 236, 13, 113, 145>>
FipsCipherC256 == <<142, 162, 183, 202, 81, 103, 69, 191, 234, 252, 73, 144, 75, 73, 96, 137>>

\* The bytes 00 01 02 ... of the Appendix C keys, n of them.
CountingBytes(n) == Eager([i \in 1..n |-> (i - 1) % 256])

\* A block of mixed bytes, one per k.
PatternBlock(k) == Eager([i \in 1..16 |-> (k * 37 + i * 101) % 256])

\* Arguments of NewKey: every length from 0 to MaxKeyLen, and the Appendix B key.
KeyInputs == {CountingBytes(n) : n \in 0..MaxKeyLen} \cup {FipsKeyB}

\* Blocks given to the cipher by the client.
BlockInputs == {FipsPlainB, FipsPlainC} \cup {PatternBlock(k) : k \in 1..MaxPattern}

noCipher == [schedule |-> <<>>, numRounds |-> 0]
noMode   == [kind |-> "none", iv |-> <<>>, nonce |-> 0]
noRun    == [started |-> FALSE]
noExec   == [at |-> "idle"]

\* The goroutines that call the shared cipher.
Callers == {"a", "b"}

\* A goroutine that has not called the cipher.
noCall == [at |-> "idle", op |-> "none", inp |-> <<>>, state |-> <<>>, round |-> 0,
           out |-> <<>>, overlapped |-> FALSE]

Init ==
  /\ pc = "start"
  /\ keyBytes = <<>>
  /\ key = <<>>
  /\ cipher = noCipher
  /\ mode = noMode
  /\ calls = <<>>
  /\ blocks = <<>>
  /\ encryptedNonces = <<>>
  /\ run = noRun
  /\ exec = noExec
  /\ callers = [p \in Callers |-> noCall]

\* key := aes.NewKey(bytes)
CallNewKey(bytes) ==
  /\ pc = "start"
  /\ LET r == NewKey(bytes)
     IN  /\ pc' = IF r.panic THEN "panic" ELSE "keyed"
         /\ key' = r.key
  /\ keyBytes' = bytes
  /\ UNCHANGED <<cipher, mode, calls, blocks, encryptedNonces, run, exec, callers>>

\* cipher := aes.NewCipher(key)
CallNewCipher ==
  /\ pc = "keyed"
  /\ cipher' = NewCipher(key)
  /\ pc' = "ready"
  /\ UNCHANGED <<keyBytes, key, mode, calls, blocks, encryptedNonces, run, exec, callers>>

\* The argument of the next call: a fresh input first, then the output of
\* the call before.
NextArgs(fresh) == IF calls = <<>> THEN fresh ELSE {calls[Len(calls)].out}

\* The argument of the call before, given again.
RepeatArgs == IF calls = <<>> THEN {} ELSE {calls[Len(calls)].inp}

\* out := cipher.Encrypt(block)
CallEncrypt(block) ==
  /\ pc = "ready"
  /\ Len(calls) < MaxCalls
  /\ calls' = Append(calls, [op |-> "Encrypt", inp |-> block, out |-> Encrypt(cipher, block), nonce |-> 0, iv |-> <<>>])
  /\ UNCHANGED <<pc, keyBytes, key, cipher, mode, blocks, encryptedNonces, run, exec, callers>>

\* out := cipher.Decrypt(block)
CallDecrypt(block) ==
  /\ pc = "ready"
  /\ Len(calls) < MaxCalls
  /\ calls' = Append(calls, [op |-> "Decrypt", inp |-> block, out |-> Decrypt(cipher, block), nonce |-> 0, iv |-> <<>>])
  /\ UNCHANGED <<pc, keyBytes, key, cipher, mode, blocks, encryptedNonces, run, exec, callers>>

Next ==
  \/ \E bytes \in KeyInputs : CallNewKey(bytes)
  \/ CallNewCipher
  \/ \E block \in NextArgs(BlockInputs) \cup RepeatArgs : CallEncrypt(block)
  \/ \E block \in NextArgs(BlockInputs) \cup RepeatArgs : CallDecrypt(block)

Spec == Init /\ [][Next]_vars

(***************************************************************************)
(* Properties of the block cipher and of the key.                          *)
(***************************************************************************)

\* A call of the cipher's Encrypt followed by a call of Decrypt on its output.
EncryptThenDecrypt(k) ==
  /\ calls[k].op = "Encrypt"
  /\ calls[k + 1].op = "Decrypt"
  /\ calls[k + 1].inp = calls[k].out

\* C1: for every valid key (16, 24 or 32 bytes) and every block P,
\* Decrypt(Encrypt(P)) = P.
C1_DecryptInvertsEncrypt ==
  pc = "ready" =>
    \A k \in 1..(Len(calls) - 1) : EncryptThenDecrypt(k) => calls[k + 1].out = calls[k].inp

C1_Witness ==
  /\ pc = "ready"
  /\ Len(keyBytes) = 32
  /\ Len(calls) = 2
  /\ EncryptThenDecrypt(1)
  /\ calls[1].inp = FipsPlainB
  /\ calls[1].out # FipsPlainB
  /\ calls[2].out = FipsPlainB

\* The first call made on the cipher built from keyBytes = k is Encrypt(p).
FirstEncrypt(k, p) ==
  /\ pc = "ready"
  /\ keyBytes = k
  /\ Len(calls) >= 1
  /\ calls[1].op = "Encrypt"
  /\ calls[1].inp = p

\* C2: AES-128 reproduces the FIPS-197 vectors: key 2b7e1516...4f3c maps
\* 3243f6a8...0734 to 3925841d...0b32 (Appendix B), and key 00..0f maps
\* 00112233...eeff to 69c4e0d8...c55a (Appendix C.1).
C2_Fips128 ==
  /\ FirstEncrypt(FipsKeyB, FipsPlainB) => calls[1].out = FipsCipherB
  /\ FirstEncrypt(CountingBytes(16), FipsPlainC) => calls[1].out = FipsCipherC128

C2_Witness ==
  /\ FirstEncrypt(FipsKeyB, FipsPlainB)
  /\ calls[1].out = FipsCipherB

\* C3: AES-192 with key 00..17 maps 00112233...eeff to dda97ca4...7191
\* (Appendix C.2).
C3_Fips192 ==
  FirstEncrypt(CountingBytes(24), FipsPlainC) => calls[1].out = FipsCipherC192

C3_Witness ==
  /\ FirstEncrypt(CountingBytes(24), FipsPlainC)
  /\ calls[1].out = FipsCipherC192
  /\ cipher.numRounds = 12

\* C4: AES-256 with key 00..1f maps 00112233...eeff to 8ea2b7ca...6089
\* (Appendix C.3), the key schedule applying the extra SubWord of Nk > 6.
C4_Fips256 ==
  FirstEncrypt(CountingBytes(32), FipsPlainC) => calls[1].out = FipsCipherC256

\* C5: NewKey accepts exactly the lengths 16, 24 and 32 and then returns
\* length/4 words, each made of four consecutive bytes, most significant
\* first; for any other length it panics and returns no key.
C5_NewKeyLengths ==
  pc # "start" =>
    IF Len(keyBytes) \in {16, 24, 32}
    THEN /\ pc # "panic"
         /\ Len(key) = Len(keyBytes) \div 4
         /\ \A i \in 1..Len(key) :
              key[i] = <<keyBytes[4 * i - 3], keyBytes[4 * i - 2], keyBytes[4 * i - 1], keyBytes[4 * i]>>
    ELSE /\ pc = "panic"
         /\ key = <<>>

C5_Witness ==
  /\ pc = "keyed"
  /\ keyBytes = FipsKeyB
  /\ key = <<<<43, 126, 21, 22>>, <<40, 174, 210, 166>>, <<171, 247, 21, 136>>, <<9, 207, 79, 60>>>>

(***************************************************************************)
(* The modes of operation as a state machine: one AES-128 cipher, wrapped  *)
(* in an ECB, a CBC or a CTR mode, which is then called on byte strings.   *)
(***************************************************************************)

\* n bytes, none of them zero or a padding value.
PatternBytes(n) == Eager([i \in 1..n |-> 32 + ((i * 29) % 200)])

\* The key of the cipher the modes wrap.
ModeKeyInputs == {FipsKeyB}

\* Initialisation vectors given to NewCBCMode.
IVInputs == {PatternBlock(k) : k \in 1..MaxPattern}

\* Inputs of the modes: every length from 0 to MaxLen, and two full blocks.
ByteInputs == {PatternBytes(n) : n \in 0..MaxLen} \cup {PatternBytes(32)}

\* mode := blockcipher.NewECBMode(cipher)
CallNewECBMode ==
  /\ pc = "ready"
  /\ pc' = "mode"
  /\ mode' = [kind |-> "ecb", iv |-> <<>>, nonce |-> 0]
  /\ UNCHANGED <<keyBytes, key, cipher, calls, blocks, encryptedNonces, run, exec, callers>>

\* mode := blockcipher.NewCBCMode(cipher, iv)
CallNewCBCMode(iv) ==
  /\ pc = "ready"
  /\ pc' = "mode"
  /\ mode' = [kind |-> "cbc", iv |-> iv, nonce |-> 0]
  /\ UNCHANGED <<keyBytes, key, cipher, calls, blocks, encryptedNonces, run, exec, callers>>

\* mode := blockcipher.NewCTRMode(cipher): the first mode over the cipher, or
\* a new ctr instance replacing one whose counter has advanced.
CallNewCTRMode ==
  /\ \/ pc = "ready"
     \/ pc = "mode" /\ mode.kind = "ctr" /\ mode.nonce > 0
  /\ pc' = "mode"
  /\ mode' = [kind |-> "ctr", iv |-> <<>>, nonce |-> 0]
  /\ encryptedNonces' = <<>>
  /\ UNCHANGED <<keyBytes, key, cipher, calls, blocks, run, exec, callers>>

\* LogCall of a cbc that keeps the last block it produced as its iv.
LogCallStoresLastBlock(op, bytes, out) ==
  /\ calls' = Append(calls, [op |-> op, inp |-> bytes, out |-> out, nonce |-> mode.nonce, iv |-> mode.iv])
  /\ blocks' = Blockify(bytes, 16)
  /\ mode' = IF mode.kind = "cbc" THEN [mode EXCEPT !.iv = SubSeq(out, Len(out) - 15, Len(out))] ELSE mode
  /\ UNCHANGED <<pc, keyBytes, key, cipher, encryptedNonces, run, exec, callers>>

\* What a call of an ecb or cbc method leaves behind: the log entry and the
\* blocks the method cut its argument into.
LogCall(op, bytes, out) ==
  /\ calls' = Append(calls, [op |-> op, inp |-> bytes, out |-> out, nonce |-> mode.nonce, iv |-> mode.iv])
  /\ blocks' = Blockify(bytes, 16)
  /\ UNCHANGED <<pc, keyBytes, key, cipher, mode, encryptedNonces, run, exec, callers>>

\* out := mode.Encrypt(bytes), mode being an *ecb
CallEcbEncrypt(bytes) ==
  /\ pc = "mode" /\ mode.kind = "ecb" /\ Len(calls) < MaxCalls
  /\ LogCall("Encrypt", bytes, ecbEncrypt(cipher, bytes))

\* out := mode.Decrypt(bytes), mode being an *ecb
CallEcbDecrypt(bytes) ==
  /\ pc = "mode" /\ mode.kind = "ecb" /\ Len(calls) < MaxCalls
  /\ LogCall("Decrypt", bytes, ecbDecrypt(cipher, bytes))

\* out := mode.Encrypt(bytes), mode being a *cbc
CallCbcEncrypt(bytes) ==
  /\ pc = "mode" /\ mode.kind = "cbc" /\ Len(calls) < MaxCalls
  /\ LogCall("Encrypt", bytes, cbcEncrypt(cipher, mode.iv, bytes))

\* out := mode.Decrypt(bytes), mode being a *cbc
CallCbcDecrypt(bytes) ==
  /\ pc = "mode" /\ mode.kind = "cbc" /\ Len(calls) < MaxCalls
  /\ LogCall("Decrypt", bytes, cbcDecrypt(cipher, mode.iv, bytes))

\* What a call of a ctr method leaves behind: r is the result of ctrEncrypt.
LogCtrCall(op, bytes, r) ==
  /\ calls' = Append(calls, [op |-> op, inp |-> bytes, out |-> r.out, nonce |-> mode.nonce, iv |-> mode.iv])
  /\ mode' = [mode EXCEPT !.nonce = r.nonce]
  /\ encryptedNonces' = encryptedNonces \o r.encryptedNonces
  /\ blocks' = Blockify(bytes, 16)
  /\ UNCHANGED <<pc, keyBytes, key, cipher, run, exec, callers>>

\* out := mode.Encrypt(bytes), mode being a *ctr
CallCtrEncrypt(bytes) ==
  /\ pc = "mode" /\ mode.kind = "ctr" /\ Len(calls) < MaxCalls
  /\ LogCtrCall("Encrypt", bytes, ctrEncrypt(cipher, mode.nonce, bytes))

\* out := mode.Decrypt(bytes), mode being a *ctr
CallCtrDecrypt(bytes) ==
  /\ pc = "mode" /\ mode.kind = "ctr" /\ Len(calls) < MaxCalls
  /\ LogCtrCall("Decrypt", bytes, ctrDecrypt(cipher, mode.nonce, bytes))

\* A mode's first call is Encrypt of a client input; later calls take the
\* output of the call before, and a cbc may also be given the same input again.
NextMode ==
  \/ \E bytes \in ModeKeyInputs : CallNewKey(bytes)
  \/ CallNewCipher
  \/ CallNewECBMode
  \/ \E iv \in IVInputs : CallNewCBCMode(iv)
  \/ CallNewCTRMode
  \/ \E bytes \in NextArgs(ByteInputs) : CallEcbEncrypt(bytes)
  \/ \E bytes \in NextArgs({}) : CallEcbDecrypt(bytes)
  \/ \E bytes \in NextArgs(ByteInputs) \cup RepeatArgs : CallCbcEncrypt(bytes)
  \/ \E bytes \in NextArgs({}) : CallCbcDecrypt(bytes)
  \/ \E bytes \in NextArgs(ByteInputs) : CallCtrEncrypt(bytes)
  \/ \E bytes \in NextArgs({}) : CallCtrDecrypt(bytes)

SpecMode == Init /\ [][NextMode]_vars

(***************************************************************************)
(* Properties of the modes.                                                *)
(***************************************************************************)

\* The input of call k is one or more whole blocks.
WholeBlocks(k) == Len(calls[k].inp) > 0 /\ Len(calls[k].inp) % 16 = 0

\* Call k + 1 is Decrypt of the output of call k, an Encrypt, and returns the
\* input of call k.
RoundTrip(k) == EncryptThenDecrypt(k) => calls[k + 1].out = calls[k].inp

\* C6 as stated: for every ECB mode instance and every byte string P,
\* ecb.Decrypt(ecb.Encrypt(P)) = P.
C6_EcbRoundTripAnyInput ==
  (pc = "mode" /\ mode.kind = "ecb") =>
    \A k \in 1..(Len(calls) - 1) : RoundTrip(k)

\* C6, amended: for every ECB mode instance and every byte string P whose
\* length is a positive multiple of 16, ecb.Decrypt(ecb.Encrypt(P)) = P.
C6_EcbRoundTripWholeBlocks ==
  (pc = "mode" /\ mode.kind = "ecb") =>
    \A k \in 1..(Len(calls) - 1) : WholeBlocks(k) => RoundTrip(k)

C6_Witness ==
  /\ pc = "mode" /\ mode.kind = "ecb"
  /\ Len(calls) = 2
  /\ EncryptThenDecrypt(1)
  /\ calls[1].inp = PatternBytes(32)
  /\ calls[1].out # calls[1].inp
  /\ calls[2].out = PatternBytes(32)

\* C7 as stated: for every CBC mode instance and every byte string P whose
\* length is a multiple of 16, from 0 upwards, cbc.Decrypt(cbc.Encrypt(P)) = P.
C7_CbcRoundTripFromZero ==
  (pc = "mode" /\ mode.kind = "cbc") =>
    \A k \in 1..(Len(calls) - 1) : Len(calls[k].inp) % 16 = 0 => RoundTrip(k)

\* C7, amended: for every CBC mode instance and every byte string P whose
\* length is a positive multiple of 16, cbc.Decrypt(cbc.Encrypt(P)) = P.
C7_CbcRoundTripWholeBlocks ==
  (pc = "mode" /\ mode.kind = "cbc") =>
    \A k \in 1..(Len(calls) - 1) : WholeBlocks(k) => RoundTrip(k)

C7_Witness ==
  /\ pc = "mode" /\ mode.kind = "cbc"
  /\ mode.iv = PatternBlock(1)
  /\ Len(calls) = 2
  /\ EncryptThenDecrypt(1)
  /\ calls[1].inp = PatternBytes(32)
  /\ calls[2].out = PatternBytes(32)

\* C8 as stated: for every CTR mode instance and any byte string P, of any
\* length, ctr.Decrypt(ctr.Encrypt(P)) = P.
C8_CtrRoundTripAnyInput ==
  (pc = "mode" /\ mode.kind = "ctr") =>
    \A k \in 1..(Len(calls) - 1) : RoundTrip(k)

\* C8, amended: for every CTR mode instance and every byte string P whose
\* length is a positive multiple of 16, ctr.Decrypt(ctr.Encrypt(P)) = P,
\* whether Decrypt is called on the instance that encrypted or on a new one.
C8_CtrRoundTripWholeBlocks ==
  (pc = "mode" /\ mode.kind = "ctr") =>
    \A k \in 1..(Len(calls) - 1) : WholeBlocks(k) => RoundTrip(k)

C8_Witness ==
  /\ pc = "mode" /\ mode.kind = "ctr"
  /\ Len(calls) = 2
  /\ EncryptThenDecrypt(1)
  /\ calls[1].inp = PatternBytes(32)
  /\ calls[2].nonce = 2
  /\ calls[2].out = PatternBytes(32)

\* C9: when Blockify splits an input whose final partial block has r bytes,
\* 0 < r < 16, the last block is those r bytes followed by 16 - r padding
\* bytes, each of value 16 - r.
C9_FinalBlockPadded ==
  (pc = "mode" /\ calls # <<>>) =>
    LET inp == calls[Len(calls)].inp
        r   == Len(inp) % 16
    IN  r > 0 =>
          blocks[Len(blocks)] =
            SubSeq(inp, Len(inp) - r + 1, Len(inp)) \o [i \in 1..(16 - r) |-> 16 - r]

\* C10: the nonce block encrypted for the i-th block a ctr instance processes
\* holds the counter i - 1 in its last eight bytes, so no two blocks of the
\* instance, within a call or across calls, use the same nonce block.
C10_NonceHoldsCounter ==
  (pc = "mode" /\ mode.kind = "ctr") =>
    /\ \A i \in 1..Len(encryptedNonces) :
         SubSeq(encryptedNonces[i], 9, 16) = LittleEndian(i - 1, 8)
    /\ \A i, j \in 1..Len(encryptedNonces) :
         i # j => encryptedNonces[i] # encryptedNonces[j]

\* Calls j and k are the same method given the same input.
SameCall(j, k) == calls[j].op = calls[k].op /\ calls[j].inp = calls[k].inp

\* C11: cbc Encrypt and Decrypt never modify the IV stored in the mode: after
\* any sequence of calls on one cbc instance the stored IV is the IV given at
\* construction, every call starts from it, and two Encrypt calls with the
\* same input return the same output.
C11_CbcIvUnchanged ==
  (pc = "mode" /\ mode.kind = "cbc") =>
    /\ mode.iv \in IVInputs
    /\ \A k \in 1..Len(calls) : calls[k].iv = mode.iv
    /\ \A j, k \in 1..Len(calls) : SameCall(j, k) => calls[j].out = calls[k].out

C11_Witness ==
  /\ pc = "mode" /\ mode.kind = "cbc"
  /\ mode.iv = PatternBlock(1)
  /\ Len(calls) = 2
  /\ calls[1].op = "Encrypt" /\ calls[2].op = "Encrypt"
  /\ calls[1].inp = PatternBytes(32) /\ calls[2].inp = PatternBytes(32)
  /\ calls[2].iv = PatternBlock(1)
  /\ calls[2].out = calls[1].out

(***************************************************************************)
(* Blocks made by NewBlock and then given to the cipher.                   *)
(***************************************************************************)

\* Arguments of NewBlock: every length from 0 to MaxBlockLen.
BlockByteInputs == {PatternBytes(n) : n \in 0..MaxBlockLen}

\* What a call of a NewBlock leaves behind: r is its result.
LogNewBlock(op, bytes, r) ==
  /\ pc' = IF r.panic THEN "panic" ELSE pc
  /\ calls' = Append(calls, [op |-> op, inp |-> bytes, out |-> r.block, nonce |-> 0, iv |-> <<>>])
  /\ UNCHANGED <<keyBytes, key, cipher, mode, blocks, encryptedNonces, run, exec, callers>>

\* block := aes.NewBlock(bytes)
CallNewBlock(bytes) ==
  /\ pc = "ready"
  /\ calls = <<>>
  /\ LogNewBlock("aes.NewBlock", bytes, NewBlock(bytes))

\* block := blockcipher.NewBlock(bytes)
CallBlockcipherNewBlock(bytes) ==
  /\ pc = "ready"
  /\ calls = <<>>
  /\ LogNewBlock("blockcipher.NewBlock", bytes, blockcipherNewBlock(bytes))

\* The client makes a block with NewBlock and passes it, and then each
\* result, to the cipher.
NextBlock ==
  \/ \E bytes \in ModeKeyInputs : CallNewKey(bytes)
  \/ CallNewCipher
  \/ \E bytes \in BlockByteInputs : CallNewBlock(bytes)
  \/ \E bytes \in BlockByteInputs : CallBlockcipherNewBlock(bytes)
  \/ \E block \in NextArgs({}) : CallEncrypt(block)
  \/ \E block \in NextArgs({}) : CallDecrypt(block)

SpecBlock == Init /\ [][NextBlock]_vars

\* Call k is a call of one of the two NewBlock functions.
IsNewBlock(k) == calls[k].op \in {"aes.NewBlock", "blockcipher.NewBlock"}

\* C13: NewBlock succeeds for every input of at most 16 bytes and returns a
\* block whose first len(bytes) bytes are the input and whose other bytes are
\* zero; for every longer input it panics with a length error.
C13_NewBlockLengths ==
  \A k \in 1..Len(calls) :
    IsNewBlock(k) =>
      LET inp == calls[k].inp
          out == calls[k].out
      IN  IF Len(inp) <= 16
          THEN /\ pc # "panic"
               /\ Len(out) = 16
               /\ \A i \in 1..16 : out[i] = IF i <= Len(inp) THEN inp[i] ELSE 0
          ELSE /\ pc = "panic"
               /\ out = <<>>

C13_Witness ==
  /\ pc = "ready"
  /\ Len(calls) = 1
  /\ calls[1].op = "aes.NewBlock"
  /\ calls[1].inp = PatternBytes(5)
  /\ calls[1].out = PatternBytes(5) \o <<0, 0, 0, 0, 0, 0, 0, 0, 0, 0, 0>>

(***************************************************************************)
(* The command-line program, cmd/aes.                                      *)
(***************************************************************************)

\* main runs in three steps.  The first two are key = aes.NewKey([]byte(keyStr))
\* with keyStr the value of AES_KEY, which panics on a bad length, and
\* cipher = aes.NewCipher(key): the actions CallNewKey and CallNewCipher.  The
\* third is the rest of main, with cipher c, first argument arg and stdin
\* holding the bytes in: what it wrote to stdout and its exit status.  A Go
\* panic ends the process with status 2 and log.Fatal with status 1.  An
\* argument other than encrypt and decrypt is fatal; the loop runs for
\* i = 0, 16, ... while i <= len(in), cuts j = i + 16 down to len(in), converts
\* in[i:j] to a Block, which panics when the slice is shorter than 16 bytes,
\* and writes op(block).
main(c, arg, in) ==
  IF arg \notin {"encrypt", "decrypt"} THEN [stdout |-> <<>>, exit |-> 1]
  ELSE
    LET Body(n, acc) ==
          LET i     == 16 * n
              j     == IF i + 16 > Len(in) THEN Len(in) ELSE i + 16
              slice == SubSeq(in, i + 1, j)
          IN  IF acc.panicked THEN acc
              ELSE IF Len(slice) < 16 THEN [acc EXCEPT !.panicked = TRUE]
              ELSE [acc EXCEPT !.stdout =
                      @ \o (IF arg = "encrypt" THEN Encrypt(c, slice) ELSE Decrypt(c, slice))]
        end == For(Body, 0, (Len(in) \div 16) + 1, [stdout |-> <<>>, panicked |-> FALSE])
    IN  [stdout |-> end.stdout, exit |-> IF end.panicked THEN 2 ELSE 0]

\* n letters, abcdef...: a key that fits an environment variable.
LetterBytes(n) == Eager([i \in 1..n |-> 97 + ((i - 1) % 26)])

\* Values of AES_KEY: every length from 0 to MaxKeyLen.
MainKeyInputs == {LetterBytes(n) : n \in 0..MaxKeyLen}

\* First arguments of the command.
MainArgInputs == {"encrypt", "decrypt", "sign"}

\* Contents of stdin: every length from 0 to MaxStdin.
StdinInputs == {PatternBytes(n) : n \in 0..MaxStdin}

\* What a run leaves behind: r is the result of main.
RunRecord(arg, in, r) ==
  [started |-> TRUE, arg |-> arg, stdin |-> in, stdout |-> r.stdout, exit |-> r.exit]

\* The rest of one run of the command, from the switch on the argument to exit.
CallMain(arg, in) ==
  /\ pc = "ready"
  /\ ~run.started
  /\ run' = RunRecord(arg, in, main(cipher, arg, in))
  /\ UNCHANGED <<pc, keyBytes, key, cipher, mode, calls, blocks, encryptedNonces, exec, callers>>

NextMain ==
  \/ \E keyStr \in MainKeyInputs : CallNewKey(keyStr)
  \/ CallNewCipher
  \/ \E arg \in MainArgInputs, in \in StdinInputs : CallMain(arg, in)

SpecMain == Init /\ [][NextMain]_vars

\* C14: run with subcommand encrypt or decrypt, an AES_KEY of 16, 24 or 32
\* bytes and a stdin of any length n >= 0, the command processes the input in
\* 16-byte blocks, writes the processed bytes to stdout and exits with status 0.
C14_DriverExitsZero ==
  (/\ run.started
   /\ Len(keyBytes) \in {16, 24, 32}
   /\ run.arg \in {"encrypt", "decrypt"})
    => /\ run.exit = 0
       /\ Len(run.stdout) >= Len(run.stdin)
       /\ Len(run.stdout) % 16 = 0

(***************************************************************************)
(* Further properties of the modes.                                        *)
(***************************************************************************)

\* Block i (from 1) of a byte string.
BlockAt(bytes, i) == SubSeq(bytes, 16 * (i - 1) + 1, 16 * i)

\* C15: cbc chaining.  For the input blocks P1..Pn, cbc.Encrypt outputs
\* C1 = E(P1 XOR IV) and Ci = E(Pi XOR Ci-1), in input order; cbc.Decrypt on
\* C1..Cn outputs D(C1) XOR IV and D(Ci) XOR Ci-1, the previous block being
\* the previous ciphertext block, not the previous decrypted block.
C15_CbcChaining ==
  [][(pc = "mode" /\ mode.kind = "cbc" /\ Len(calls') = Len(calls) + 1) =>
       LET call == calls'[Len(calls')]
           in   == blocks'
           out  == call.out
       IN  /\ Len(out) = 16 * Len(in)
           /\ \A i \in 1..Len(in) :
                IF call.op = "Encrypt"
                THEN BlockAt(out, i) =
                       Encrypt(cipher, BlockXOR(in[i], IF i = 1 THEN mode.iv ELSE BlockAt(out, i - 1)))
                ELSE BlockAt(out, i) =
                       BlockXOR(Decrypt(cipher, in[i]), IF i = 1 THEN mode.iv ELSE in[i - 1])]_vars

C15_Witness ==
  /\ pc = "mode" /\ mode.kind = "cbc"
  /\ Len(calls) = 2
  /\ calls[1].op = "Encrypt" /\ calls[1].inp = PatternBytes(17)
  /\ calls[2].op = "Decrypt" /\ calls[2].inp = calls[1].out
  /\ Len(blocks) = 2
  /\ BlockAt(calls[2].out, 2) = BlockAt(calls[1].inp \o ZeroBytes(15), 2)

\* C16: the counter of a ctr instance is 0 at construction, never decreases,
\* and after every call equals the total number of blocks the instance has
\* processed: each call adds the number of blocks of its input.
C16_CtrCounterCountsBlocks ==
  [][(pc' = "mode" /\ mode'.kind = "ctr") =>
       /\ mode'.nonce = Len(encryptedNonces')
       /\ IF calls' = calls
          THEN mode'.nonce = 0
          ELSE /\ mode'.nonce >= mode.nonce
               /\ mode'.nonce = mode.nonce + Len(blocks')]_vars

C16_Witness ==
  /\ pc = "mode" /\ mode.kind = "ctr"
  /\ Len(calls) = 2
  /\ calls[1].inp = PatternBytes(17) /\ calls[1].nonce = 0
  /\ calls[2].nonce = 2 /\ Len(calls[2].inp) = 32
  /\ mode.nonce = 4
  /\ Len(encryptedNonces) = 4

\* max(1, ceil(n / 16))
BlockCount(n) == IF n = 0 THEN 1 ELSE (n + 15) \div 16

\* C20: Blockify(bytes, 16) returns exactly max(1, ceil(n / 16)) blocks of 16
\* bytes whose concatenation starts with the n input bytes, so the output of
\* Encrypt and Decrypt of every mode has 16 * max(1, ceil(n / 16)) bytes; an
\* empty input gives one block.
C20_BlockCount ==
  (pc = "mode" /\ calls # <<>>) =>
    LET inp == calls[Len(calls)].inp
    IN  /\ Len(blocks) = BlockCount(Len(inp))
        /\ \A b \in 1..Len(blocks) : Len(blocks[b]) = 16
        /\ \A i \in 1..Len(inp) : blocks[((i - 1) \div 16) + 1][((i - 1) % 16) + 1] = inp[i]
        /\ \A k \in 1..Len(calls) : Len(calls[k].out) = 16 * BlockCount(Len(calls[k].inp))

C20_Witness ==
  /\ pc = "mode" /\ mode.kind = "ecb"
  /\ Len(calls) = 1
  /\ calls[1].inp = <<>>
  /\ Len(blocks) = 1
  /\ Len(calls[1].out) = 16

(***************************************************************************)
(* Encrypt and Decrypt of the cipher, statement by statement.              *)
(***************************************************************************)

\* A step of a call: the function applied, and the round it is applied in
\* (for addRoundKey, the round argument it is called with).
Step(name, round) == [step |-> name, round |-> round]

\* return matrixBlock(state), after the last steps have given state.
Returned(e, state, steps) ==
  [e EXCEPT !.at = "done", !.state = state, !.steps = @ \o steps, !.out = matrixBlock(state)]

\* The block a followed call is given: a client block, or the output of the
\* call before.
ExecArgs == IF exec.at = "done" THEN {exec.out} ELSE BlockInputs

\* The keys of the calls followed: one of each valid length, and the
\* Appendix B key.
RoundKeyInputs == {CountingBytes(16), CountingBytes(24), CountingBytes(32), FipsKeyB}

\* Encrypt: state := parse(block); state = addRoundKey(state, c.schedule, 0)
BeginEncrypt(block) ==
  /\ pc = "ready" /\ exec.at = "idle"
  /\ exec' = [at |-> "loop", op |-> "Encrypt", inp |-> block,
              state |-> addRoundKey(parse(block), cipher.schedule, 0),
              round |-> 1, steps |-> <<Step("addRoundKey", 0)>>, out |-> <<>>]
  /\ UNCHANGED <<pc, keyBytes, key, cipher, mode, calls, blocks, encryptedNonces, run, callers>>

\* Encrypt: one pass of the loop for round := 1; round < c.numRounds; round++
EncryptRound ==
  /\ exec.at = "loop" /\ exec.op = "Encrypt"
  /\ exec.round < cipher.numRounds
  /\ exec' = [exec EXCEPT
                !.state = addRoundKey(mixColumns(shiftRows(subBytes(@)), mixColumnPolynomials),
                                      cipher.schedule, exec.round),
                !.steps = @ \o <<Step("subBytes", exec.round), Step("shiftRows", exec.round),
                                 Step("mixColumns", exec.round), Step("addRoundKey", exec.round)>>,
                !.round = @ + 1]
  /\ UNCHANGED <<pc, keyBytes, key, cipher, mode, calls, blocks, encryptedNonces, run, callers>>

\* The last round of Encrypt with the column mixing left in.
EncryptReturnMixes ==
  /\ exec.at = "loop" /\ exec.op = "Encrypt"
  /\ ~(exec.round < cipher.numRounds)
  /\ exec' = Returned(exec,
                      addRoundKey(mixColumns(shiftRows(subBytes(exec.state)), mixColumnPolynomials),
                                  cipher.schedule, cipher.numRounds),
                      <<Step("subBytes", cipher.numRounds), Step("shiftRows", cipher.numRounds),
                        Step("mixColumns", cipher.numRounds), Step("addRoundKey", cipher.numRounds)>>)
  /\ UNCHANGED <<pc, keyBytes, key, cipher, mode, calls, blocks, encryptedNonces, run, callers>>

\* Encrypt: the loop is left; the last round and return matrixBlock(state)
EncryptReturn ==
  /\ exec.at = "loop" /\ exec.op = "Encrypt"
  /\ ~(exec.round < cipher.numRounds)
  /\ exec' = Returned(exec,
                      addRoundKey(shiftRows(subBytes(exec.state)), cipher.schedule, cipher.numRounds),
                      <<Step("subBytes", cipher.numRounds), Step("shiftRows", cipher.numRounds),
                        Step("addRoundKey", cipher.numRounds)>>)
  /\ UNCHANGED <<pc, keyBytes, key, cipher, mode, calls, blocks, encryptedNonces, run, callers>>

\* Decrypt: state := parse(block); state = addRoundKey(state, c.schedule, c.numRounds)
BeginDecrypt(block) ==
  /\ pc = "ready"
  /\ exec.at = "idle" \/ (exec.at = "done" /\ exec.op = "Encrypt")
  /\ exec' = [at |-> "loop", op |-> "Decrypt", inp |-> block,
              state |-> addRoundKey(parse(block), cipher.schedule, cipher.numRounds),
              round |-> cipher.numRounds - 1,
              steps |-> <<Step("addRoundKey", cipher.numRounds)>>, out |-> <<>>]
  /\ UNCHANGED <<pc, keyBytes, key, cipher, mode, calls, blocks, encryptedNonces, run, callers>>

\* Decrypt: one pass of the loop for round := c.numRounds - 1; round >= 1; round--
DecryptRound ==
  /\ exec.at = "loop" /\ exec.op = "Decrypt"
  /\ exec.round >= 1
  /\ exec' = [exec EXCEPT
                !.state = mixColumns(addRoundKey(subBytesInverse(shiftRowsInverse(@)),
                                                 cipher.schedule, exec.round),
                                     mixColumnPolynomialsInverse),
                !.steps = @ \o <<Step("shiftRowsInverse", exec.round), Step("subBytesInverse", exec.round),
                                 Step("addRoundKey", exec.round), Step("mixColumns", exec.round)>>,
                !.round = @ - 1]
  /\ UNCHANGED <<pc, keyBytes, key, cipher, mode, calls, blocks, encryptedNonces, run, callers>>

\* Decrypt: the loop is left; the last round and return matrixBlock(state)
DecryptReturn ==
  /\ exec.at = "loop" /\ exec.op = "Decrypt"
  /\ ~(exec.round >= 1)
  /\ exec' = Returned(exec,
                      addRoundKey(subBytesInverse(shiftRowsInverse(exec.state)), cipher.schedule, 0),
                      <<Step("shiftRowsInverse", 0), Step("subBytesInverse", 0), Step("addRoundKey", 0)>>)
  /\ UNCHANGED <<pc, keyBytes, key, cipher, mode, calls, blocks, encryptedNonces, run, callers>>

NextRounds ==
  \/ \E bytes \in RoundKeyInputs : CallNewKey(bytes)
  \/ CallNewCipher
  \/ \E block \in BlockInputs : BeginEncrypt(block)
  \/ EncryptRound
  \/ EncryptReturn
  \/ \E block \in ExecArgs : BeginDecrypt(block)
  \/ DecryptRound
  \/ DecryptReturn

SpecRounds == Init /\ [][NextRounds]_vars

\* The steps of the call that apply the function name, in order.
StepsOf(name) == LET Is(s) == s.step = name IN SelectSeq(exec.steps, Is)

\* C17: with Nr = numRounds, Encrypt calls addRoundKey Nr + 1 times with the
\* rounds 0, 1, ..., Nr in ascending order and mixColumns Nr - 1 times, never
\* in the final round; Decrypt calls addRoundKey with the rounds Nr, ..., 0 in
\* descending order and the inverse mixColumns Nr - 1 times; every schedule
\* index round*4 + c, c in 0..3, lies inside the schedule of Nb * (Nr + 1)
\* words.
C17_RoundOrdering ==
  exec.at # "idle" =>
    LET Nr  == cipher.numRounds
        ark == StepsOf("addRoundKey")
        mix == StepsOf("mixColumns")
    IN  /\ Len(cipher.schedule) = numColumns * (Nr + 1)
        /\ \A i \in 1..Len(ark) :
             /\ ark[i].round = IF exec.op = "Encrypt" THEN i - 1 ELSE Nr - (i - 1)
             /\ \A c \in 0..3 : ark[i].round * 4 + c \in 0..(Len(cipher.schedule) - 1)
        /\ \A i \in 1..Len(mix) : mix[i].round \in 1..(Nr - 1)
        /\ exec.at = "done" => (Len(ark) = Nr + 1 /\ Len(mix) = Nr - 1)

C17_Witness ==
  /\ exec.at = "done" /\ exec.op = "Decrypt"
  /\ keyBytes = CountingBytes(24)
  /\ cipher.numRounds = 12
  /\ exec.inp = FipsCipherC192
  /\ exec.out = FipsPlainC
  /\ Len(StepsOf("addRoundKey")) = 13
  /\ Len(StepsOf("mixColumns")) = 11

\* C18: parse and matrixBlock are inverse to each other: for every block b,
\* matrixBlock(parse(b)) = b, where parse loads state[r][c] = b[r + 4c]; the
\* explicit loop and NewMatrix(b, 4).Transpose() give the same state.
C18_ParseEmitInverse ==
  exec.at # "idle" =>
    /\ matrixBlock(parse(exec.inp)) = exec.inp
    /\ matrixBlock(parseLoop(exec.inp)) = exec.inp
    /\ parseLoop(exec.inp) = parse(exec.inp)
    /\ \A r, c \in 0..3 : parse(exec.inp)[r + 1][c + 1] = exec.inp[(r + 4 * c) + 1]
    /\ exec.at = "done" => parse(exec.out) = exec.state

C18_Witness ==
  /\ exec.at = "done" /\ exec.op = "Encrypt"
  /\ keyBytes = FipsKeyB
  /\ exec.inp = FipsPlainB
  /\ parse(exec.inp)[1] = <<50, 136, 49, 224>>
  /\ exec.state[1] = <<57, 2, 220, 25>>
  /\ exec.out = FipsCipherB

(***************************************************************************)
(* The field arithmetic called directly.                                   *)
(***************************************************************************)

\* The operands of the next call of Multiply: any two bytes first, then the
\* operands of the call before in the other order.
MultiplyArgs ==
  IF calls = <<>>
  THEN (0..255) \X (0..255)
  ELSE {<<calls[Len(calls)].inp[2], calls[Len(calls)].inp[1]>>}

\* out := Multiply(a, b)
CallMultiply(a, b) ==
  /\ pc = "start"
  /\ Len(calls) < MaxCalls
  /\ calls' = Append(calls, [op |-> "Multiply", inp |-> <<a, b>>, out |-> Multiply(a, b), nonce |-> 0, iv |-> <<>>])
  /\ UNCHANGED <<pc, keyBytes, key, cipher, mode, blocks, encryptedNonces, run, exec, callers>>

NextField == \E ab \in MultiplyArgs : CallMultiply(ab[1], ab[2])

SpecField == Init /\ [][NextField]_vars

\* C19: multiplication in GF(2^8) is commutative: Multiply(a, b) =
\* Multiply(b, a) for all bytes a and b, although the loop runs over the bit
\* length of b only.
C19_MultiplyCommutes ==
  pc = "start" =>
    \A j, k \in 1..Len(calls) :
      (calls[j].inp[1] = calls[k].inp[2] /\ calls[j].inp[2] = calls[k].inp[1])
        => calls[j].out = calls[k].out

C19_Witness ==
  /\ pc = "start"
  /\ Len(calls) = 2
  /\ calls[1].inp = <<87, 131>> /\ calls[1].out = 193
  /\ calls[2].inp = <<131, 87>> /\ calls[2].out = 193

(***************************************************************************)
(* Mod and Rcon, statement by statement.                                   *)
(***************************************************************************)

\* Arguments of Mod: every dividend from 0 to MaxDividend, every divisor from
\* 1 to MaxDivisor, and poly.
DividendInputs == 0..MaxDividend
DivisorInputs  == (1..MaxDivisor) \cup {poly}

\* Arguments of Rcon: the rounds of the key expansion.
RoundInputs == 0..MaxRound

\* Mod: remainder := dividend
BeginMod(dividend, divisor) ==
  /\ pc = "start" /\ exec.at = "idle"
  /\ exec' = [at |-> "loop", op |-> "Mod", round |-> 0,
              dividend |-> dividend, divisor |-> divisor,
              remainder |-> dividend, iterations |-> 0, result |-> 0, out |-> <<>>]
  /\ UNCHANGED <<pc, keyBytes, key, cipher, mode, calls, blocks, encryptedNonces, run, callers>>

\* Rcon: the call Mod(Exp2(round), poly) begins
BeginRcon(round) ==
  /\ pc = "start" /\ exec.at = "idle"
  /\ exec' = [at |-> "loop", op |-> "Rcon", round |-> round,
              dividend |-> Exp2(round), divisor |-> poly,
              remainder |-> Exp2(round), iterations |-> 0, result |-> 0, out |-> <<>>]
  /\ UNCHANGED <<pc, keyBytes, key, cipher, mode, calls, blocks, encryptedNonces, run, callers>>

\* Mod: one pass of the loop
\* for remainder != 0 && degree(remainder) >= degree(divisor)
ModIterate ==
  /\ exec.at = "loop" /\ exec.op \in {"Mod", "Rcon"}
  /\ exec.remainder # 0 /\ degree(exec.remainder) >= degree(exec.divisor)
  /\ exec' = [exec EXCEPT !.remainder = ModBody(@, exec.divisor), !.iterations = @ + 1]
  /\ UNCHANGED <<pc, keyBytes, key, cipher, mode, calls, blocks, encryptedNonces, run, callers>>

\* Mod: the loop is left and the remainder returned (result); Rcon converts
\* it to a Word and shifts it left by 24 bits, the low byte becoming the top
\* byte (out).
ModReturn ==
  /\ exec.at = "loop" /\ exec.op \in {"Mod", "Rcon"}
  /\ ~(exec.remainder # 0 /\ degree(exec.remainder) >= degree(exec.divisor))
  /\ exec' = [exec EXCEPT !.at = "done",
                          !.result = exec.remainder,
                          !.out = IF exec.op = "Rcon"
                                  THEN <<exec.remainder % 256, 0, 0, 0>>
                                  ELSE <<>>]
  /\ UNCHANGED <<pc, keyBytes, key, cipher, mode, calls, blocks, encryptedNonces, run, callers>>

NextMod ==
  \/ \E dividend \in DividendInputs, divisor \in DivisorInputs : BeginMod(dividend, divisor)
  \/ \E round \in RoundInputs : BeginRcon(round)
  \/ ModIterate
  \/ ModReturn

SpecMod == Init /\ [][NextMod]_vars

\* A call that has begun goes on: the loop and the return are sequential
\* code of one goroutine.
SpecModLive == SpecMod /\ WF_vars(ModIterate) /\ WF_vars(ModReturn)

\* C21: Mod(dividend, divisor) terminates for every dividend >= 0 and every
\* divisor > 0: each pass of the loop strictly lowers the degree of the
\* remainder, and the result r is 0 or has degree(r) < degree(divisor); so
\* Rcon(round) = Mod(2^round, 0x11B) << 24 terminates with a one-byte
\* constant for every round of the key expansion.
C21_ModTerminates ==
  /\ [][(exec.at = "loop" /\ exec'.at = "loop") =>
          degree(exec'.remainder) < degree(exec.remainder)]_vars
  /\ [](exec.at = "done" =>
          /\ exec.result = 0 \/ degree(exec.result) < degree(exec.divisor)
          /\ exec.iterations <= BitsLen(exec.dividend)
          /\ exec.op = "Rcon" =>
               /\ exec.result \in 0..255
               /\ exec.out = <<exec.result, 0, 0, 0>>)
  /\ (exec.at = "loop") ~> (exec.at = "done")

C21_Witness ==
  /\ exec.at = "done" /\ exec.op = "Rcon"
  /\ exec.round = 9
  /\ exec.dividend = 512
  /\ exec.iterations = 1
  /\ exec.result = 54
  /\ exec.out = <<54, 0, 0, 0>>

(***************************************************************************)
(* One cipher shared by concurrent callers.  Encrypt and Decrypt have a    *)
(* value receiver: each call works on its own state matrix, which every    *)
(* step builds anew, and reads c.schedule, c.numRounds and the tables.     *)
(* The calls of the goroutines interleave statement by statement.          *)
(***************************************************************************)

\* Blocks the concurrent callers pass: the Appendix B plaintext and ciphertext.
ConcurrentInputs == {FipsPlainB, FipsCipherB}

\* Some other goroutine is inside a call.
OthersInCall(p) == \E q \in Callers \ {p} : callers[q].at = "loop"

\* callers after goroutine p has begun the call `call`: the calls that are
\* under way now overlap with it.
Begun(p, call) ==
  [q \in Callers |->
     IF q = p THEN [call EXCEPT !.overlapped = OthersInCall(p)]
     ELSE IF callers[q].at = "loop" THEN [callers[q] EXCEPT !.overlapped = TRUE]
     ELSE callers[q]]

\* callers after the call of goroutine p has returned matrixBlock(state).
GoReturned(p, state) ==
  [callers EXCEPT ![p] = [@ EXCEPT !.at = "done", !.state = state, !.out = matrixBlock(state)]]

\* Encrypt's loop pass that also rotates the words of the shared schedule.
GoEncryptRoundWearsSchedule(p) ==
  /\ callers[p].at = "loop" /\ callers[p].op = "Encrypt"
  /\ callers[p].round < cipher.numRounds
  /\ callers' = [callers EXCEPT ![p] = [@ EXCEPT
                   !.state = addRoundKey(mixColumns(shiftRows(subBytes(@)), mixColumnPolynomials),
                                         cipher.schedule, callers[p].round),
                   !.round = @ + 1]]
  /\ cipher' = [cipher EXCEPT !.schedule = Tail(@) \o <<Head(@)>>]
  /\ UNCHANGED <<pc, keyBytes, key, mode, calls, blocks, encryptedNonces, run, exec>>

\* goroutine p, Encrypt: state := parse(block); state = addRoundKey(state, c.schedule, 0)
GoEncryptBegin(p, block) ==
  /\ pc = "ready" /\ callers[p].at = "idle"
  /\ callers' = Begun(p, [noCall EXCEPT !.at = "loop", !.op = "Encrypt", !.inp = block,
                                        !.state = addRoundKey(parse(block), cipher.schedule, 0),
                                        !.round = 1])
  /\ UNCHANGED <<pc, keyBytes, key, cipher, mode, calls, blocks, encryptedNonces, run, exec>>

\* goroutine p, Encrypt: one pass of the loop for round := 1; round < c.numRounds; round++
GoEncryptRound(p) ==
  /\ callers[p].at = "loop" /\ callers[p].op = "Encrypt"
  /\ callers[p].round < cipher.numRounds
  /\ callers' = [callers EXCEPT ![p] = [@ EXCEPT
                   !.state = addRoundKey(mixColumns(shiftRows(subBytes(@)), mixColumnPolynomials),
                                         cipher.schedule, callers[p].round),
                   !.round = @ + 1]]
  /\ UNCHANGED <<pc, keyBytes, key, cipher, mode, calls, blocks, encryptedNonces, run, exec>>

\* goroutine p, Encrypt: the loop is left; the last round and return matrixBlock(state)
GoEncryptReturn(p) ==
  /\ callers[p].at = "loop" /\ callers[p].op = "Encrypt"
  /\ ~(callers[p].round < cipher.numRounds)
  /\ callers' = GoReturned(p, addRoundKey(shiftRows(subBytes(callers[p].state)),
                                          cipher.schedule, cipher.numRounds))
  /\ UNCHANGED <<pc, keyBytes, key, cipher, mode, calls, blocks, encryptedNonces, run, exec>>

\* goroutine p, Decrypt: state := parse(block); state = addRoundKey(state, c.schedule, c.numRounds)
GoDecryptBegin(p, block) ==
  /\ pc = "ready" /\ callers[p].at = "idle"
  /\ callers' = Begun(p, [noCall EXCEPT !.at = "loop", !.op = "Decrypt", !.inp = block,
                                        !.state = addRoundKey(parse(block), cipher.schedule,
                                                              cipher.numRounds),
                                        !.round = cipher.numRounds - 1])
  /\ UNCHANGED <<pc, keyBytes, key, cipher, mode, calls, blocks, encryptedNonces, run, exec>>

\* goroutine p, Decrypt: one pass of the loop for round := c.numRounds - 1; round >= 1; round--
GoDecryptRound(p) ==
  /\ callers[p].at = "loop" /\ callers[p].op = "Decrypt"
  /\ callers[p].round >= 1
  /\ callers' = [callers EXCEPT ![p] = [@ EXCEPT
                   !.state = mixColumns(addRoundKey(subBytesInverse(shiftRowsInverse(@)),
                                                    cipher.schedule, callers[p].round),
                                        mixColumnPolynomialsInverse),
                   !.round = @ - 1]]
  /\ UNCHANGED <<pc, keyBytes, key, cipher, mode, calls, blocks, encryptedNonces, run, exec>>

\* goroutine p, Decrypt: the loop is left; the last round and return matrixBlock(state)
GoDecryptReturn(p) ==
  /\ callers[p].at = "loop" /\ callers[p].op = "Decrypt"
  /\ ~(callers[p].round >= 1)
  /\ callers' = GoReturned(p, addRoundKey(subBytesInverse(shiftRowsInverse(callers[p].state)),
                                          cipher.schedule, 0))
  /\ UNCHANGED <<pc, keyBytes, key, cipher, mode, calls, blocks, encryptedNonces, run, exec>>

NextConcurrent ==
  \/ \E bytes \in ModeKeyInputs : CallNewKey(bytes)
  \/ CallNewCipher
  \/ \E p \in Callers, block \in ConcurrentInputs : GoEncryptBegin(p, block)
  \/ \E p \in Callers : GoEncryptRound(p)
  \/ \E p \in Callers : GoEncryptReturn(p)
  \/ \E p \in Callers, block \in ConcurrentInputs : GoDecryptBegin(p, block)
  \/ \E p \in Callers : GoDecryptRound(p)
  \/ \E p \in Callers : GoDecryptReturn(p)

SpecConcurrent == Init /\ [][NextConcurrent]_vars

\* C12: a cipher is immutable after NewCipher: no step of an Encrypt or
\* Decrypt call changes its schedule or its round count, so the result of
\* Encrypt(b) and of Decrypt(b) depends only on b: whatever calls of other
\* goroutines came before the call or are interleaved with it, a call returns
\* what the call made alone returns.
C12_CipherImmutable ==
  [][pc = "ready" =>
       /\ cipher' = cipher
       /\ \A p \in Callers :
            (callers[p].at = "loop" /\ callers'[p].at = "done") =>
              callers'[p].out = IF callers[p].op = "Encrypt"
                                THEN Encrypt(cipher, callers[p].inp)
                                ELSE Decrypt(cipher, callers[p].inp)]_vars

C12_Witness ==
  /\ pc = "ready"
  /\ keyBytes = FipsKeyB
  /\ callers["a"].at = "done" /\ callers["a"].overlapped
  /\ callers["a"].op = "Encrypt" /\ callers["a"].inp = FipsPlainB
  /\ callers["a"].out = FipsCipherB
  /\ callers["b"].at = "loop" /\ callers["b"].overlapped
  /\ callers["b"].op = "Decrypt" /\ callers["b"].inp = FipsCipherB
  /\ callers["b"].round = 4
====
